---- MODULE Spec2Model ----
(***************************************************************************)
(* Tax-verification reconciliation engine of taxright/services.py.         *)
(*                                                                         *)
(* Units.  Tax rates are integers counting 0.00001 (so 0.0825 is 8250 and  *)
(* the tolerance 0.0001 is 10); a rate stored in a DecimalField with four  *)
(* decimal places is a multiple of 10.  Money is counted in cents.         *)
(* Confidence scores are counted in hundredths.                            *)
(*                                                                         *)
(* Text.  A reasoning text is kept as what the code reads from it: the     *)
(* percentages it mentions, in order, and which of the key phrases it      *)
(* contains; the notes the engine prepends are kept as a set of tags.      *)
(*                                                                         *)
(* Specifications.  SpecLine applies verify_line_item_tax to one line item *)
(* and one knowledge-base answer.  Spec is one verification request        *)
(* against one invoice: the guard, the loop over the line items, the tax   *)
(* calculation, the determination.  SpecCalc starts where the loop has     *)
(* ended and runs the tax calculation over a wider range of amounts, and    *)
(* SpecDisc does so for invoices that carry an invoice-level discount.     *)
(* SpecPrompt applies the prompt builder to one line item and invoice.     *)
(* SpecRace interleaves the database writes of two verification requests   *)
(* on one invoice.                                                         *)
(* SpecWide is Spec for knowledge-base answers whose numbers lie outside   *)
(* [0, 1].  SpecCoerce applies the parser's decimal coercion to one JSON   *)
(* value, SpecParse applies validate_and_extract to one OCR answer, and    *)
(* SpecOcr runs create_invoice_from_ocr, with the verification it          *)
(* triggers, and upload_invoice on one invoice.                            *)
(***************************************************************************)
EXTENDS Integers, Sequences, FiniteSets, TLC

VARIABLES
    inv,        \* the Invoice row
    items,      \* its InvoiceLineItem rows, in id order
    verifs,     \* the LineItemTaxVerification row of each line item
    det,        \* the TaxDetermination row of the invoice
    pc,         \* where the running verify_invoice_taxes call stands
    idx,        \* the line item its loop is at
    results,    \* its list `verifications`, and what the KB answered for each
    call,       \* the last call: who made it, how it ended, whether the KB was queried
    lineIn,     \* verify_line_item_tax, or its prompt builder, alone: the arguments
    lineOut,    \* verify_line_item_tax, or its prompt builder, alone: the result
    parseIn,    \* the parser alone: the OCR value or document it is given
    parseOut,   \* the parser alone: what it returned
    upload      \* the upload of an invoice: the OCR outcome, the runs, the status

parserVars == <<parseIn, parseOut, upload>>

vars == <<inv, items, verifs, det, pc, idx, results, call, lineIn, lineOut,
          parseIn, parseOut, upload>>

\* ------------------------------------------------------------------ numbers

Tolerance == 10            \* Decimal('0.0001')
RateQuantum == 10          \* four decimal places of a rate
RateOne == 100000          \* Decimal('1.0')
RateFieldLimit == 1000000  \* DecimalField(max_digits=5, decimal_places=4): |value| < 10
ConfidenceOne == 100       \* Decimal('1.00')
ConfidenceDefault == 50    \* 0.5

MaxMentions == 2         \* percentages mentioned in one reasoning text
MaxItems == 2            \* line items of an invoice
MaxChars == 3            \* characters of an OCR string

Abs(x) == IF x < 0 THEN -x ELSE x

Max(x, y) == IF x >= y THEN x ELSE y

\* Decimal.quantize(Decimal('0.0001')) under the default ROUND_HALF_EVEN
QuantizeRate(r) ==
    LET q == r \div RateQuantum
        rem == r % RateQuantum
    IN  IF 2 * rem < RateQuantum THEN q * RateQuantum
        ELSE IF 2 * rem > RateQuantum THEN (q + 1) * RateQuantum
        ELSE IF q % 2 = 0 THEN q * RateQuantum
        ELSE (q + 1) * RateQuantum

\* ------------------------------------------------------------------ reasoning text

Notes == {"AutoCorrected", "Contradiction", "Clarified", "Updated", "Preview",
          "NotExtracted", "NoReasoning", "NoKb", "Error"}

Text(ms, ex, ph, cl, zp, ns) ==
    [mentions |-> ms, exempt |-> ex, phrase |-> ph, clarify |-> cl,
     zeroPhrase |-> zp, notes |-> ns]

\* a fixed message of the engine: no percentage, no key phrase
Message(note) == Text(<<>>, FALSE, FALSE, FALSE, FALSE, {note})

\* _extract_rates_from_reasoning: every "<number>%" of the text, in order, / 100
ExtractRatesFromReasoning(text) == text.mentions

\* ------------------------------------------------------------------ KB answer

\* _parse_verification_response, first stage: json.loads, else the regex fallback.
\* stage = "object" (a dict was built), "notobject" (valid JSON, not an object)
ParseStage1(resp) ==
    IF resp.kind = "json" THEN
        [stage |-> "object",
         is_correct |-> resp.icFound /\ resp.isCorrect,
         erKind |-> resp.erKind, expected |-> resp.expected,
         csKind |-> resp.csKind, conf |-> resp.conf,
         reasoning |-> IF resp.rsFound THEN resp.text ELSE Message("NoReasoning")]
    ELSE IF resp.kind = "notobject" THEN
        [stage |-> "notobject", is_correct |-> FALSE,
         erKind |-> "missing", expected |-> 0, csKind |-> "missing", conf |-> 0,
         reasoning |-> Message("NoReasoning")]
    ELSE IF resp.erKind = "bad" \/ resp.csKind = "bad" THEN
        \* float() of a matched "[0-9.]+" raised: the last-resort dict
        [stage |-> "object", is_correct |-> FALSE,
         erKind |-> "num", expected |-> 0, csKind |-> "num", conf |-> 0,
         reasoning |-> [resp.text EXCEPT !.notes = @ \cup {"Preview"}]]
    ELSE
        [stage |-> "object",
         is_correct |-> resp.icFound /\ resp.isCorrect,
         erKind |-> "num",
         expected |-> IF resp.erKind = "num" THEN resp.expected ELSE 0,
         csKind |-> "num",
         conf |-> IF resp.csKind = "num" THEN resp.conf ELSE ConfidenceDefault,
         reasoning |-> IF resp.rsFound THEN resp.text ELSE Message("NotExtracted")]

\* _parse_verification_response: the normalised result
ParseVerificationResponse(resp) ==
    LET p == ParseStage1(resp)
        conf0 == IF p.csKind = "missing" THEN ConfidenceDefault ELSE p.conf
    IN  IF p.stage = "notobject" \/ p.erKind = "bad" \/ p.csKind = "bad" THEN
            [is_correct |-> FALSE, expected_tax_rate |-> 0, confidence_score |-> 0,
             reasoning |-> [resp.text EXCEPT !.notes = @ \cup {"Preview"}]]
        ELSE
            [is_correct |-> p.is_correct,
             expected_tax_rate |-> IF p.erKind = "missing" THEN 0 ELSE p.expected,
             confidence_score |-> IF conf0 < 0 THEN 0
                                  ELSE IF conf0 > ConfidenceOne THEN ConfidenceOne
                                  ELSE conf0,
             reasoning |-> p.reasoning]

\* ------------------------------------------------------------------ verify_line_item_tax

\* index of the first mention that is greater than the tolerance, 0 if none
FirstNonZeroMention(ms) ==
    IF \E i \in 1..Len(ms) : ms[i] > Tolerance
    THEN CHOOSE i \in 1..Len(ms) :
            /\ ms[i] > Tolerance
            /\ \A j \in 1..(i - 1) : ms[j] <= Tolerance
    ELSE 0

\* a variant of ZeroRateOverride that adopts the first mention above the tolerance
\* as it stands, without comparing it to the applied rate
ZeroRateOverride_AdoptsMention(applied, tax_status, expected, reasoning) ==
    IF expected = 0 /\ applied > 0 THEN
        LET ms == ExtractRatesFromReasoning(reasoning)
            k == FirstNonZeroMention(ms)
        IN  IF k > 0 THEN ms[k]
            ELSE IF tax_status = "taxable" /\ ~reasoning.exempt THEN applied
            ELSE expected
    ELSE expected

\* the zero-expected-rate override: the expected rate after it
ZeroRateOverride(applied, tax_status, expected, reasoning) ==
    IF expected = 0 /\ applied > 0 THEN
        LET ms == ExtractRatesFromReasoning(reasoning)
            k == FirstNonZeroMention(ms)
        IN  IF k > 0 THEN
                IF Abs(ms[k] - applied) <= Tolerance THEN applied ELSE ms[k]
            ELSE IF tax_status = "taxable" /\ ~reasoning.exempt THEN applied
            ELSE expected
    ELSE expected

\* rates_match = abs(applied_rate - expected_rate) <= tolerance
\* mutant: rates count as matching up to five percentage points
RatesMatch_WithinFivePoints(applied, expected) == Abs(applied - expected) <= 5000

RatesMatch(applied, expected) == Abs(applied - expected) <= Tolerance

\* a variant of EnforceConsistency that keeps the KB's verdict when the rates differ
EnforceConsistency_KeepsKbVerdict(applied, expected, v) ==
    IF ~RatesMatch(applied, expected) THEN
        [is_correct |-> v.is_correct, reasoning |-> v.reasoning]
    ELSE [is_correct |-> TRUE, reasoning |-> v.reasoning]

\* the hard consistency rule: is_correct and the reasoning after it
EnforceConsistency(applied, expected, v) ==
    IF ~RatesMatch(applied, expected) THEN
        IF v.is_correct THEN
            [is_correct |-> FALSE,
             reasoning |-> [v.reasoning EXCEPT
                              !.mentions = <<applied, expected>> \o @,
                              !.clarify = TRUE,
                              !.notes = @ \cup {"AutoCorrected"}]]
        ELSE [is_correct |-> FALSE, reasoning |-> v.reasoning]
    ELSE
        IF ~v.is_correct /\ v.reasoning.zeroPhrase THEN
            [is_correct |-> TRUE,
             reasoning |-> [v.reasoning EXCEPT
                              !.mentions = <<applied, expected>> \o @,
                              !.notes = @ \cup {"AutoCorrected"}]]
        ELSE [is_correct |-> TRUE, reasoning |-> v.reasoning]

\* a mentioned rate that disputes the applied rate and agrees with the expected one
Contradicts(m, applied, expected) ==
    /\ Abs(m - applied) > Tolerance
    /\ Abs(m - expected) <= Tolerance

\* mutant: the contradiction check is left out, only the precision-artifact
\* annotation remains
DetectContradiction_OnlyAnnotates(applied, expected, c) ==
    LET ms == ExtractRatesFromReasoning(c.reasoning)
    IN  IF /\ c.is_correct /\ c.reasoning.phrase /\ ms # <<>>
           /\ \A i \in 1..Len(ms) :
                 \/ Abs(ms[i] - applied) <= Tolerance
                 \/ Abs(ms[i] - expected) <= Tolerance
           /\ c.reasoning.clarify
        THEN [is_correct |-> TRUE,
              reasoning |-> [c.reasoning EXCEPT
                               !.mentions = <<applied, expected>> \o @,
                               !.notes = @ \cup {"Clarified"}]]
        ELSE c

\* the contradiction and precision-artifact checks on a result that is_correct
DetectContradiction(applied, expected, c) ==
    LET ms == ExtractRatesFromReasoning(c.reasoning)
    IN  IF ~c.is_correct THEN c
        ELSE IF \E i \in 1..Len(ms) : Contradicts(ms[i], applied, expected) THEN
            LET k == CHOOSE i \in 1..Len(ms) :
                        /\ Contradicts(ms[i], applied, expected)
                        /\ \A j \in 1..(i - 1) : ~Contradicts(ms[j], applied, expected)
            IN  [is_correct |-> FALSE,
                 reasoning |-> [c.reasoning EXCEPT
                                  !.mentions = <<ms[k], applied>> \o @,
                                  !.notes = @ \cup {"AutoCorrected", "Contradiction"}]]
        ELSE IF /\ c.reasoning.phrase
                /\ ms # <<>>
                /\ \A i \in 1..Len(ms) :
                      \/ Abs(ms[i] - applied) <= Tolerance
                      \/ Abs(ms[i] - expected) <= Tolerance
                /\ c.reasoning.clarify
        THEN [is_correct |-> TRUE,
              reasoning |-> [c.reasoning EXCEPT
                               !.mentions = <<applied, expected>> \o @,
                               !.notes = @ \cup {"Clarified"}]]
        ELSE c

\* the result when no knowledge base is mapped for the state
NoKbResult ==
    [is_correct |-> FALSE, expected_tax_rate |-> 0, confidence_score |-> 0,
     reasoning |-> Message("NoKb"), error |-> "NO_KB_MAPPING", kb_ok |-> FALSE]

\* the result when the KB call raised, or returned nothing
ErrorResult ==
    [is_correct |-> FALSE, expected_tax_rate |-> 0, confidence_score |-> 0,
     reasoning |-> Message("Error"), error |-> "EXCEPTION", kb_ok |-> FALSE]

\* verify_line_item_tax: the verification of one line item.  hasKb says whether a
\* knowledge base is mapped for the state; resp is what the KB call gave.
VerifyLineItemTax(item, hasKb, resp) ==
    IF ~hasKb THEN NoKbResult
    ELSE IF resp.kind = "fail" THEN ErrorResult
    ELSE
        LET v == ParseVerificationResponse(resp)
            applied == item.tax_rate
            expected == ZeroRateOverride(applied, item.tax_status,
                                         v.expected_tax_rate, v.reasoning)
            c == EnforceConsistency(applied, expected, v)
            d == DetectContradiction(applied, expected, c)
        IN  [is_correct |-> d.is_correct, expected_tax_rate |-> expected,
             confidence_score |-> v.confidence_score,
             reasoning |-> d.reasoning, error |-> "", kb_ok |-> TRUE]

\* ------------------------------------------------------------------ line items

LineItem(rate, status, total, tax, cost) ==
    [tax_rate |-> rate, tax_status |-> status, line_total |-> total,
     tax_amount |-> tax, kb_total_cost |-> cost]

SeqsUpTo(S, n) == UNION {[1..k -> S] : k \in 0..n}

\* nothing is being parsed or uploaded
NoParse == [done |-> FALSE]
NoUpload == [phase |-> "none"]
ParserIdle == parseIn = NoParse /\ parseOut = NoParse /\ upload = NoUpload

\* ------------------------------------------------------------------ stored rows

\* a DecimalField(max_digits=5, decimal_places=4) takes the value rounded to four
\* places, and refuses a value of 10 or more
FitsRateField(r) == Abs(QuantizeRate(r)) < RateFieldLimit

NoVerification ==
    [present |-> FALSE, is_correct |-> FALSE, confidence_score |-> 0,
     expected_tax_rate |-> 0, applied_tax_rate |-> 0, notes |-> {}, error |-> ""]

\* the defaults of LineItemTaxVerification.objects.update_or_create
StoredVerification(res, item) ==
    [present |-> TRUE, is_correct |-> res.is_correct,
     confidence_score |-> res.confidence_score,
     expected_tax_rate |-> QuantizeRate(res.expected_tax_rate),
     applied_tax_rate |-> item.tax_rate,
     notes |-> res.reasoning.notes, error |-> res.error]

NoDetermination ==
    [present |-> FALSE, determination_status |-> "", expected_tax |-> 0,
     actual_tax |-> 0, discrepancy_amount |-> 0, verification_count |-> 0]

\* ------------------------------------------------------------------ verify_invoice_taxes

\* mutant: only the sentinel is turned away
NoValidStateCode_OnlySentinel(invoice) == invoice.state_code = "XX"

\* the guard of verify_invoice_taxes: no state code, or the sentinel
NoValidStateCode(invoice) == invoice.state_code = "" \/ invoice.state_code = "XX"

\* _validate_tax_rate: clamped into [0, 1] and rounded to four places
ValidateTaxRate(r) ==
    IF r < 0 THEN 0 ELSE IF r > RateOne THEN RateOne ELSE QuantizeRate(r)

\* expected_rate_map, by position of the line item
ExpectedRateMap(rs) == [i \in 1..Len(rs) |-> ValidateTaxRate(rs[i].expected_tax_rate)]

\* first pass: is the line item part of the expected-tax calculation
\* mutant: only the items whose status is 'taxable' are included
IsIncluded_TaxableOnly(item, rate) == item.tax_status = "taxable"

IsIncluded(item, rate) == ~(item.tax_status # "taxable" /\ rate = 0)

\* second pass: the verification gave 0 for an item with an applied rate
UsesFallback(item, rate) == rate = 0 /\ item.tax_rate > 0

\* the rate multiplied into the expected tax of an included item
RateUsed(item, rate) ==
    IF UsesFallback(item, rate) THEN ValidateTaxRate(item.tax_rate) ELSE rate

RECURSIVE SumOver(_, _, _)
\* the sum of f[i] over the indices 1..n that are in S
SumOver(f, n, S) ==
    IF n = 0 THEN 0
    ELSE SumOver(f, n - 1, S) + (IF n \in S THEN f[n] ELSE 0)

\* Decimal.quantize under ROUND_HALF_EVEN of num / den, for num >= 0 and den > 0
RoundHalfEven(num, den) ==
    LET q == num \div den
        rem == num % den
    IN  IF 2 * rem < den THEN q
        ELSE IF 2 * rem > den THEN q + 1
        ELSE IF q % 2 = 0 THEN q ELSE q + 1

\* mutant: the line totals are never taken as net of the discount
LineTotalsIncludeDiscount_Never(invoice, its) == FALSE

\* the line totals already are net of the invoice-level discount
LineTotalsIncludeDiscount(invoice, its) ==
    LET subtotal == SumOver([i \in 1..Len(its) |-> its[i].line_total], Len(its),
                            1..Len(its))
    IN  /\ invoice.invoice_discount_amount > 0
        /\ Abs(subtotal - invoice.total_amount) <= 1

\* total_expected_tax, in cents
TotalExpectedTax(invoice, its, map) ==
    LET n == Len(its)
        inc == {i \in 1..n : IsIncluded(its[i], map[i])}
        taxable_subtotal == SumOver([i \in 1..n |-> its[i].line_total], n, inc)
        allocate == /\ invoice.invoice_discount_amount > 0
                    /\ taxable_subtotal > 0
                    /\ ~LineTotalsIncludeDiscount(invoice, its)
        base == [i \in 1..n |-> Max(0, its[i].line_total)]
        \* discounted_amount of item i, times taxable_subtotal when allocating
        amount == [i \in 1..n |->
                     IF allocate
                     THEN Max(0, base[i] * (taxable_subtotal
                                            - invoice.invoice_discount_amount))
                     ELSE base[i]]
        den == IF allocate THEN taxable_subtotal ELSE 1
    IN  RoundHalfEven(
            SumOver([i \in 1..n |-> RateUsed(its[i], map[i]) * amount[i]], n, inc),
            RateOne * den)

\* mutant: the invoice-level tax and the line taxes are added together
TotalActualTax_AddsBoth(invoice, its) ==
    Max(0, invoice.total_tax_amount)
    + SumOver([i \in 1..Len(its) |-> Max(0, its[i].tax_amount)], Len(its), 1..Len(its))

\* total_actual_tax, in cents
TotalActualTax(invoice, its) ==
    IF invoice.total_tax_amount > 0 THEN invoice.total_tax_amount
    ELSE Max(0, SumOver([i \in 1..Len(its) |-> Max(0, its[i].tax_amount)], Len(its),
                        1..Len(its)))

\* total_actual_tax when the calculation raised
FallbackActualTax(invoice) ==
    IF invoice.total_tax_amount > 0 THEN invoice.total_tax_amount ELSE 0

\* the stored verification of an item after the fallback-rate update
FallbackUpdate(v, item, fallback_rate) ==
    IF v.present /\ v.expected_tax_rate = 0
    THEN [v EXCEPT !.expected_tax_rate = fallback_rate,
                   !.is_correct = RatesMatch(item.tax_rate, fallback_rate),
                   !.notes = @ \cup {"Updated"}]
    ELSE v

\* the verification rows after the loop over fallback_rate_updates
AfterFallbackUpdates(vs, its, map) ==
    [i \in 1..Len(its) |->
        IF IsIncluded(its[i], map[i]) /\ UsesFallback(its[i], map[i])
        THEN FallbackUpdate(vs[i], its[i], ValidateTaxRate(its[i].tax_rate))
        ELSE vs[i]]

\* summary['all_correct']
AllCorrect(rs) == \A i \in 1..Len(rs) : rs[i].is_correct

\* the defaults of TaxDetermination.objects.update_or_create
Determination(rs, expected_tax, actual_tax) ==
    [present |-> TRUE,
     determination_status |-> IF AllCorrect(rs) THEN "verified" ELSE "discrepancy",
     expected_tax |-> expected_tax, actual_tax |-> actual_tax,
     discrepancy_amount |-> actual_tax - expected_tax,
     verification_count |-> Len(rs)]

\* Invoice.recalculate_total_llm_cost
RecalculateTotalLlmCost(invoice, its) ==
    [invoice EXCEPT !.total_llm_cost =
        invoice.ocr_total_cost
        + SumOver([i \in 1..Len(its) |-> its[i].kb_total_cost], Len(its), 1..Len(its))]

\* ------------------------------------------------------------------ one line item at a time

\* applied rates and statuses of the line items verified one at a time
LineRates == {0, 7000}
LineStatuses == {"taxable", "exempt", "unknown"}
LineItems == {LineItem(r, st, 10000, 0, 0) : r \in LineRates, st \in LineStatuses}

\* percentages a reasoning text mentions: 0%, 5%, 7%, 7.005%, 7.015%
MentionRates == {0, 5000, 7000, 7005, 7015}

\* the reasoning texts: "applied tax rate of 0%" is itself a mention of 0%
Texts ==
    {Text(ms, ex, pcl[1], pcl[2], zp, {}) :
        ms \in SeqsUpTo(MentionRates, MaxMentions), ex \in BOOLEAN,
        pcl \in {<<FALSE, FALSE>>, <<TRUE, FALSE>>, <<TRUE, TRUE>>},
        zp \in BOOLEAN} \ 
    {t \in [mentions : SeqsUpTo(MentionRates, MaxMentions), exempt : BOOLEAN,
            phrase : BOOLEAN, clarify : BOOLEAN, zeroPhrase : {TRUE}, notes : {{}}] :
        \A i \in 1..Len(t.mentions) : t.mentions[i] # 0}

\* expected rates and confidence scores a KB answer states
KbRates == {0, 5000, 7000, 7010}
KbConfs == {95, 150}

Resp(kind, icf, ic, erk, er, csk, cs, rsf, text) ==
    [kind |-> kind, icFound |-> icf, isCorrect |-> ic, erKind |-> erk,
     expected |-> er, csKind |-> csk, conf |-> cs, rsFound |-> rsf, text |-> text]

\* the KB call raised, or gave an empty response or an empty answer
FailResp == Resp("fail", FALSE, FALSE, "missing", 0, "missing", 0, FALSE, Message("Error"))

ErFields == {<<"num", r>> : r \in KbRates} \cup {<<"missing", 0>>, <<"bad", 0>>}
CsFields == {<<"num", c>> : c \in KbConfs} \cup {<<"missing", 0>>}
IcFields == {<<TRUE, TRUE>>, <<TRUE, FALSE>>, <<FALSE, FALSE>>}

\* answers that are a JSON object, answers that are not JSON (the regex fallback
\* finds each field or not), and answers that are JSON but no object
KbAnswers ==
    {Resp(k, ic[1], ic[2], er[1], er[2], cs[1], cs[2], TRUE, t) :
        k \in {"json", "regex"}, ic \in IcFields, er \in ErFields,
        cs \in CsFields, t \in Texts}
    \cup
    {Resp(k, ic[1], ic[2], er[1], er[2], cs[1], cs[2], FALSE, Message("NoReasoning")) :
        k \in {"json", "regex"}, ic \in IcFields, er \in ErFields, cs \in CsFields}
    \cup
    {Resp("notobject", FALSE, FALSE, "missing", 0, "missing", 0, FALSE, t) : t \in Texts}

NoLine == [done |-> FALSE, item |-> LineItem(0, "unknown", 0, 0, 0), hasKb |-> FALSE,
           resp |-> FailResp, res |-> NoKbResult]

\* no invoice is being verified
NoInvoice ==
    [state_code |-> "XX", total_amount |-> 0, total_tax_amount |-> 0,
     invoice_discount_amount |-> 0, ocr_total_cost |-> 0, total_llm_cost |-> 0]

NoCall == [outcome |-> "none", kbQueried |-> FALSE, calc |-> ""]

InitLine ==
    /\ \E it \in LineItems, kb \in BOOLEAN, r \in KbAnswers \cup {FailResp} :
          /\ (~kb => r = FailResp)
          /\ lineIn = [item |-> it, hasKb |-> kb, resp |-> r]
    /\ lineOut = NoLine
    /\ inv = NoInvoice /\ items = <<>> /\ verifs = <<>> /\ det = NoDetermination
    /\ pc = "idle" /\ idx = 0 /\ results = <<>> /\ call = NoCall
    /\ ParserIdle

ApplyVerifyLineItemTax ==
    /\ ~lineOut.done
    /\ lineOut' = [done |-> TRUE, item |-> lineIn.item, hasKb |-> lineIn.hasKb,
                   resp |-> lineIn.resp,
                   res |-> VerifyLineItemTax(lineIn.item, lineIn.hasKb, lineIn.resp)]
    /\ UNCHANGED <<lineIn, inv, items, verifs, det, pc, idx, results, call>>
    /\ UNCHANGED parserVars

NextLine == ApplyVerifyLineItemTax

SpecLine == InitLine /\ [][NextLine]_vars

\* ------------------------------------------------------------------ one invoice

\* state codes: "CA" has an active knowledge base, "TX" has none
StateCodes == {"CA", "TX", "XX", ""}
KbStates == {"CA"}

\* line items: applied rate 0 or 8% on a line total of 100.00; a line at 8% shows
\* its tax of 8.00 or none (the tax is on the invoice), a line at 0 shows none
InvoiceItems ==
    {LineItem(8000, st, 10000, t, 0) : st \in {"taxable", "exempt"}, t \in {0, 800}}
    \cup {LineItem(0, st, 10000, 0, 0) : st \in {"taxable", "exempt"}}

\* invoice-level tax: none, or 41.25
InvoiceTaxes == {0, 4125}

Invoices ==
    {[state_code |-> sc, total_amount |-> 10000, total_tax_amount |-> tt,
      invoice_discount_amount |-> 0, ocr_total_cost |-> 7, total_llm_cost |-> 7] :
        sc \in StateCodes, tt \in InvoiceTaxes}

PlainText == Text(<<>>, FALSE, FALSE, FALSE, FALSE, {})
ExemptText == Text(<<>>, TRUE, FALSE, FALSE, FALSE, {})

\* what the knowledge base answers for a line item of an invoice: a rate of 5%,
\* of 8%, of 0 on an exemption, of 12.5 (1250%), prose without any field, or nothing
InvoiceKbAnswers ==
    {Resp("json", TRUE, TRUE, "num", 5000, "num", 95, TRUE, PlainText),
     Resp("json", TRUE, TRUE, "num", 8000, "num", 95, TRUE, PlainText),
     Resp("json", TRUE, FALSE, "num", 0, "num", 95, TRUE, ExemptText),
     Resp("json", TRUE, FALSE, "num", 1250000, "num", 95, TRUE, PlainText),
     Resp("regex", FALSE, FALSE, "missing", 0, "missing", 0, FALSE, PlainText),
     FailResp}

\* the cost of one knowledge-base call, from its estimated tokens
KbCallCosts == {3}

Init ==
    /\ inv \in Invoices
    /\ items \in SeqsUpTo(InvoiceItems, MaxItems)
    /\ verifs = [i \in 1..Len(items) |-> NoVerification]
    /\ det = NoDetermination
    /\ pc = "idle" /\ idx = 0 /\ results = <<>> /\ call = NoCall
    /\ lineIn = [item |-> NoLine.item, hasKb |-> FALSE, resp |-> FailResp]
    /\ lineOut = NoLine
    /\ ParserIdle

\* an entry of the list `verifications`, with the answer it came from
ResultEntry(res, resp) ==
    [is_correct |-> res.is_correct, confidence_score |-> res.confidence_score,
     expected_tax_rate |-> res.expected_tax_rate, resp |-> resp]

\* verify_invoice_taxes is entered: the state-code guard, then the loop
EnterVerifyInvoiceTaxes ==
    IF NoValidStateCode(inv)
    THEN /\ call' = [call EXCEPT !.outcome = "not_applicable"]
         /\ UNCHANGED <<inv, items, verifs, det, pc, idx, results>>
    ELSE /\ pc' = "loop" /\ idx' = 1 /\ results' = <<>>
         /\ call' = [call EXCEPT !.outcome = "running"]
         /\ UNCHANGED <<inv, items, verifs, det>>

\* the service method, called on the invoice as it is (create_invoice_from_ocr
\* and the endpoint are its callers in the repository)
VerifyInvoiceTaxes ==
    /\ pc = "idle" /\ call.outcome = "none"
    /\ EnterVerifyInvoiceTaxes
    /\ UNCHANGED <<lineIn, lineOut>>
    /\ UNCHANGED parserVars

\* POST /invoices/{id}/verify-taxes
VerifyTaxesEndpoint ==
    /\ pc = "idle" /\ call.outcome = "none"
    /\ IF NoValidStateCode(inv) \/ items = <<>>
       THEN /\ call' = [call EXCEPT !.outcome = IF NoValidStateCode(inv)
                                              THEN "error_no_state_code"
                                              ELSE "error_no_line_items"]
            /\ UNCHANGED <<inv, items, verifs, det, pc, idx, results>>
       ELSE EnterVerifyInvoiceTaxes
    /\ UNCHANGED <<lineIn, lineOut>>
    /\ UNCHANGED parserVars

\* one turn of the loop: verify_line_item_tax, then update_or_create, for the
\* answers the knowledge base may give
VerifyItemWith(answers) ==
    /\ pc = "loop" /\ idx <= Len(items)
    /\ LET hasKb == inv.state_code \in KbStates IN
       \E resp \in (IF hasKb THEN answers ELSE {FailResp}), c \in KbCallCosts :
          LET item == items[idx]
              res == VerifyLineItemTax(item, hasKb, resp)
              saved == IF res.kb_ok THEN [item EXCEPT !.kb_total_cost = c] ELSE item
          IN  /\ items' = [items EXCEPT ![idx] = saved]
              /\ IF FitsRateField(res.expected_tax_rate)
                 THEN /\ verifs' = [verifs EXCEPT ![idx] = StoredVerification(res, saved)]
                      /\ results' = Append(results, ResultEntry(res, resp))
                      /\ idx' = idx + 1
                      /\ call' = [call EXCEPT !.kbQueried = @ \/ hasKb]
                      /\ UNCHANGED pc
                 ELSE \* the row does not take the rate: the call ends in the error
                      /\ pc' = "idle" /\ idx' = 0 /\ results' = <<>>
                      /\ call' = [call EXCEPT !.outcome = "raised", !.kbQueried = TRUE]
                      /\ UNCHANGED verifs
    /\ UNCHANGED <<inv, det, lineIn, lineOut>>
    /\ UNCHANGED parserVars

VerifyItem == VerifyItemWith(InvoiceKbAnswers)

\* where a query of the tax calculation may fail: nowhere, at the line items of
\* the first pass, or at the line items summed for the actual tax
FailPoints(invoice) ==
    {"none", "items"} \cup (IF invoice.total_tax_amount > 0 THEN {} ELSE {"actual"})

\* after the loop: summary, tax calculation, determination, cost
FinishVerify ==
    /\ pc = "loop" /\ idx > Len(items)
    /\ \E failAt \in FailPoints(inv) :
          LET map == ExpectedRateMap(results)
              expected_tax == IF failAt = "none" THEN TotalExpectedTax(inv, items, map)
                              ELSE 0
              actual_tax == IF failAt = "none" THEN TotalActualTax(inv, items)
                            ELSE FallbackActualTax(inv)
          IN  /\ verifs' = IF failAt = "items" THEN verifs
                           ELSE AfterFallbackUpdates(verifs, items, map)
              /\ det' = Determination(results, expected_tax, actual_tax)
              /\ call' = [call EXCEPT !.outcome = "completed", !.calc = failAt]
    /\ inv' = RecalculateTotalLlmCost(inv, items)
    /\ pc' = "idle" /\ idx' = 0
    /\ UNCHANGED <<items, results, lineIn, lineOut>>
    /\ UNCHANGED parserVars

Next == VerifyInvoiceTaxes \/ VerifyTaxesEndpoint \/ VerifyItem \/ FinishVerify

Spec == Init /\ [][Next]_vars

\* ------------------------------------------------------------------ the tax calculation

\* line items and invoice-level taxes for the calculation alone: applied rate 0 or
\* 8.25%, tax amount -1.00, 0 or 8.00; invoice tax -5.00, 0 or 41.25
CalcItems ==
    {LineItem(r, "taxable", 10000, t, 0) : r \in {0, 8250}, t \in {-100, 0, 800}}

CalcInvoices ==
    {[state_code |-> "CA", total_amount |-> 10000, total_tax_amount |-> tt,
      invoice_discount_amount |-> 0, ocr_total_cost |-> 7, total_llm_cost |-> 7] :
        tt \in {-500, 0, 4125}}

\* the knowledge base confirms the applied rate of the item
AgreeingAnswer(item) ==
    Resp("json", TRUE, TRUE, "num", item.tax_rate, "num", 95, TRUE, PlainText)

\* the loop of verify_invoice_taxes has ended, the KB having agreed on every item
InitCalc ==
    /\ inv \in CalcInvoices
    /\ \E its \in SeqsUpTo(CalcItems, MaxItems), c \in KbCallCosts :
          LET res == [i \in 1..Len(its) |->
                        VerifyLineItemTax(its[i], TRUE, AgreeingAnswer(its[i]))]
              saved == [i \in 1..Len(its) |-> [its[i] EXCEPT !.kb_total_cost = c]]
          IN  /\ items = saved
              /\ verifs = [i \in 1..Len(its) |-> StoredVerification(res[i], saved[i])]
              /\ results = [i \in 1..Len(its) |->
                              ResultEntry(res[i], AgreeingAnswer(its[i]))]
              /\ idx = Len(its) + 1
              /\ call = [outcome |-> "running", kbQueried |-> its # <<>>, calc |-> ""]
    /\ det = NoDetermination
    /\ pc = "loop"
    /\ lineIn = [item |-> NoLine.item, hasKb |-> FALSE, resp |-> FailResp]
    /\ lineOut = NoLine
    /\ ParserIdle

NextCalc == FinishVerify

SpecCalc == InitCalc /\ [][NextCalc]_vars

\* ------------------------------------------------------------------ KB answers out of range

\* answers whose numbers are outside [0, 1]: an expected rate of 1.5 or -0.05, a
\* confidence of 1.5 or -0.2, and a reasoning that mentions 150%
WideKbAnswers ==
    {Resp("json", TRUE, FALSE, "num", 150000, "num", 95, TRUE, PlainText),
     Resp("json", TRUE, FALSE, "num", -5000, "num", 150, TRUE, PlainText),
     Resp("json", TRUE, TRUE, "num", 8000, "num", -20, TRUE, PlainText),
     Resp("json", TRUE, FALSE, "num", 0, "num", 95, TRUE,
          Text(<<150000>>, FALSE, FALSE, FALSE, FALSE, {}))}

InitWide ==
    /\ inv \in {i \in Invoices : i.state_code \in KbStates}
    /\ items \in SeqsUpTo(InvoiceItems, MaxItems)
    /\ verifs = [i \in 1..Len(items) |-> NoVerification]
    /\ det = NoDetermination
    /\ pc = "idle" /\ idx = 0 /\ results = <<>> /\ call = NoCall
    /\ lineIn = [item |-> NoLine.item, hasKb |-> FALSE, resp |-> FailResp]
    /\ lineOut = NoLine
    /\ ParserIdle

VerifyItemWide == VerifyItemWith(WideKbAnswers)

NextWide == VerifyInvoiceTaxes \/ VerifyItemWide \/ FinishVerify

SpecWide == InitWide /\ [][NextWide]_vars

\* ------------------------------------------------------------------ decimal coercion

\* the characters of an OCR string, as far as the parser tells them apart: "1" and
\* "5" are digits, "x" is any letter, "NaN" is the word NaN
Chars == {"$", ",", ".", "-", " ", "1", "5", "x", "NaN"}
Digits == {"1", "5"}

DigitValue(c) == IF c = "1" THEN 1 ELSE 5

RECURSIVE DigitsValue(_)
\* the integer a sequence of digits writes
DigitsValue(ds) ==
    IF ds = <<>> THEN 0
    ELSE DigitsValue(SubSeq(ds, 1, Len(ds) - 1)) * 10 + DigitValue(ds[Len(ds)])

\* a Decimal: m / 10^e, or NaN; "bad" is the constructor raising InvalidOperation
Dec(m, e) == [kind |-> "fin", m |-> m, e |-> e]
DecNaN == [kind |-> "nan", m |-> 0, e |-> 0]
DecBad == [kind |-> "bad", m |-> 0, e |-> 0]

\* str.replace(c, '')
Without(str, c) == SelectSeq(str, LAMBDA t : t # c)

RECURSIVE StripLeft(_)
StripLeft(str) ==
    IF str # <<>> /\ str[1] = " " THEN StripLeft(Tail(str)) ELSE str

RECURSIVE StripRight(_)
StripRight(str) ==
    IF str # <<>> /\ str[Len(str)] = " "
    THEN StripRight(SubSeq(str, 1, Len(str) - 1)) ELSE str

\* str.strip()
Strip(str) == StripRight(StripLeft(str))

\* Decimal(text): an optional sign, then digits with at most one point, or NaN
\* with an optional payload of digits
ParseDecimal(str) ==
    LET t == Strip(str)
        neg == t # <<>> /\ t[1] = "-"
        body == IF neg THEN Tail(t) ELSE t
        points == {i \in 1..Len(body) : body[i] = "."}
        ds == SelectSeq(body, LAMBDA c : c \in Digits)
    IN  IF body # <<>> /\ body[1] = "NaN"
           /\ \A i \in 2..Len(body) : body[i] \in Digits
        THEN DecNaN
        ELSE IF /\ \A i \in 1..Len(body) : body[i] \in Digits \cup {"."}
                /\ Cardinality(points) <= 1
                /\ ds # <<>>
        THEN Dec((IF neg THEN -1 ELSE 1) * DigitsValue(ds),
                 IF points = {} THEN 0 ELSE Len(body) - (CHOOSE i \in points : TRUE))
        ELSE DecBad

\* a value of the OCR JSON under a key: absent, null, a boolean, a string, a number
JVal(kind, str, m, e) == [kind |-> kind, str |-> str, m |-> m, e |-> e]
JAbsent == JVal("absent", <<>>, 0, 0)
JNull == JVal("null", <<>>, 0, 0)
JTrue == JVal("bool", <<>>, 0, 0)
JStr(str) == JVal("str", str, 0, 0)
JNum(m, e) == JVal("num", <<>>, m, e)

\* _get_decimal and _get_decimal_from_dict: the same body
ToDecimal(value, default) ==
    IF value.kind \in {"absent", "null"} THEN default
    ELSE IF value.kind = "num" THEN Dec(value.m, value.e)
    ELSE IF value.kind = "str"
    THEN LET d == ParseDecimal(Strip(Without(Without(value.str, "$"), ",")))
         IN  IF d.kind = "bad" THEN default ELSE d
    ELSE default

\* the values coerced one at a time, and the defaults the parser passes
CoerceValues ==
    {JAbsent, JNull, JTrue, JNum(0, 0), JNum(-5, 0), JNum(825, 4)}
    \cup {JStr(str) : str \in SeqsUpTo(Chars, MaxChars)}
CoerceDefaults == {Dec(0, 2), Dec(100, 2)}

InitCoerce ==
    /\ parseIn \in [done : {TRUE}, fn : {"_get_decimal", "_get_decimal_from_dict"},
                    value : CoerceValues, default : CoerceDefaults]
    /\ parseOut = NoParse /\ upload = NoUpload
    /\ inv = NoInvoice /\ items = <<>> /\ verifs = <<>> /\ det = NoDetermination
    /\ pc = "idle" /\ idx = 0 /\ results = <<>> /\ call = NoCall
    /\ lineIn = [item |-> NoLine.item, hasKb |-> FALSE, resp |-> FailResp]
    /\ lineOut = NoLine

ApplyGetDecimal ==
    /\ ~parseOut.done /\ parseIn.fn = "_get_decimal"
    /\ parseOut' = [done |-> TRUE, dec |-> ToDecimal(parseIn.value, parseIn.default)]
    /\ UNCHANGED <<inv, items, verifs, det, pc, idx, results, call, lineIn, lineOut,
                   parseIn, upload>>

ApplyGetDecimalFromDict ==
    /\ ~parseOut.done /\ parseIn.fn = "_get_decimal_from_dict"
    /\ parseOut' = [done |-> TRUE, dec |-> ToDecimal(parseIn.value, parseIn.default)]
    /\ UNCHANGED <<inv, items, verifs, det, pc, idx, results, call, lineIn, lineOut,
                   parseIn, upload>>

NextCoerce == ApplyGetDecimal \/ ApplyGetDecimalFromDict

SpecCoerce == InitCoerce /\ [][NextCoerce]_vars

\* ------------------------------------------------------------------ InvoiceDataParser

\* 10^n
Pow10(n) == 10^n

\* a finite Decimal counted in units of 10^-places (cents for places = 2); exact
\* for the values parsed here, which have no digit below the unit
Units(d, places) ==
    IF d.e <= places THEN d.m * Pow10(places - d.e) ELSE d.m \div Pow10(d.e - places)

\* str.upper(), character by character
UpperChar(c) ==
    CASE c = "c" -> "C" [] c = "a" -> "A" [] c = "l" -> "L"
      [] c = "t" -> "T" [] c = "x" -> "X" [] OTHER -> c

RECURSIVE Join(_)
\* the string the characters spell
Join(str) == IF str = <<>> THEN "" ELSE str[1] \o Join(Tail(str))

\* _get_string(key, default=''): a missing or empty value gives the default
GetString(value) ==
    IF value.kind = "str" /\ value.str # <<>> THEN Strip(value.str) ELSE <<>>

\* _get_string('state_code', default='').upper()[:2]
ExtractStateCode(value) ==
    LET up == [i \in 1..Len(GetString(value)) |-> UpperChar(GetString(value)[i])]
    IN  Join(SubSeq(up, 1, IF Len(up) < 2 THEN Len(up) ELSE 2))

\* _get_tax_status: lower-cased and stripped, 'unknown' unless a valid status
GetTaxStatus(status) ==
    CASE status \in {"taxable", "Taxable", " taxable "} -> "taxable"
      [] status \in {"exempt", "Exempt", "EXEMPT "} -> "exempt"
      [] OTHER -> "unknown"

\* a line item of the OCR JSON
JItem(isDict, qty, price, total, disc, tax, rate, status) ==
    [isDict |-> isDict, quantity |-> qty, unit_price |-> price, line_total |-> total,
     discount_amount |-> disc, tax_amount |-> tax, tax_rate |-> rate,
     tax_status |-> status]

\* validated_item as first built: every field coerced, with its default
CoerceItem(j) ==
    [quantity |-> Units(ToDecimal(j.quantity, Dec(100, 2)), 0),
     unit_price |-> Units(ToDecimal(j.unit_price, Dec(0, 2)), 2),
     line_total |-> Units(ToDecimal(j.line_total, Dec(0, 2)), 2),
     discount_amount |-> Units(ToDecimal(j.discount_amount, Dec(0, 2)), 2),
     tax_amount |-> Units(ToDecimal(j.tax_amount, Dec(0, 2)), 2),
     tax_rate |-> Units(ToDecimal(j.tax_rate, Dec(0, 4)), 5),
     tax_status |-> GetTaxStatus(j.tax_status)]

\* mutant: the discount is inferred without the rounding tolerance
ValidateItem_NoTolerance(v) ==
    IF v.discount_amount = 0 /\ v.line_total < v.quantity * v.unit_price /\ v.line_total # 0
    THEN [v EXCEPT !.discount_amount = v.quantity * v.unit_price - v.line_total]
    ELSE v

\* the validation of one line item: the line-level discount inference
ValidateItem(v) ==
    LET pre_discount_total == v.quantity * v.unit_price
        expected_line_total == pre_discount_total - v.discount_amount
    IN  IF v.line_total = 0 /\ v.quantity > 0 /\ v.unit_price > 0 THEN v
        ELSE IF /\ Abs(v.line_total - expected_line_total) > 1
                /\ v.discount_amount = 0
                /\ v.line_total < pre_discount_total
        THEN [v EXCEPT !.discount_amount = pre_discount_total - v.line_total]
        ELSE v

\* _get_line_items: items that are no dictionaries are skipped
GetLineItems(js) ==
    LET dicts == SelectSeq(js.elems, LAMBDA j : j.isDict)
    IN  IF js.isList THEN [i \in 1..Len(dicts) |-> ValidateItem(CoerceItem(dicts[i]))]
        ELSE <<>>

\* the invoice-level discount inference of validate_and_extract
InferInvoiceDiscount(total_amount, discount, its) ==
    LET n == Len(its)
        line_items_total == SumOver([i \in 1..n |-> its[i].line_total], n, 1..n)
        zeros == Cardinality({i \in 1..n : its[i].line_total = 0})
        mismatch == line_items_total - total_amount
    IN  IF /\ Abs(line_items_total - discount - total_amount) > 1
           /\ discount = 0
           /\ line_items_total > total_amount
           /\ 2 * zeros < n \/ n = 0
           /\ total_amount > 0 => 2 * mismatch < total_amount
        THEN mismatch
        ELSE discount

NoData ==
    [total_amount |-> 0, total_tax_amount |-> 0, invoice_discount_amount |-> 0,
     state_code |-> "", line_items |-> <<>>]

\* parse and validate_and_extract: ValueError unless the text is a JSON object
ValidateAndExtract(doc) ==
    IF doc.kind # "object" THEN [raised |-> TRUE, data |-> NoData]
    ELSE LET its == GetLineItems(doc.line_items)
             total == Units(ToDecimal(doc.total_amount, Dec(0, 2)), 2)
             disc == Units(ToDecimal(doc.invoice_discount_amount, Dec(0, 2)), 2)
         IN  [raised |-> FALSE,
              data |-> [total_amount |-> total,
                        total_tax_amount |->
                            Units(ToDecimal(doc.total_tax_amount, Dec(0, 2)), 2),
                        invoice_discount_amount |-> InferInvoiceDiscount(total, disc, its),
                        state_code |-> ExtractStateCode(doc.state_code),
                        line_items |-> its]]

\* the verification side is idle
verifierVars == <<inv, items, verifs, det, pc, idx, results, call, lineIn, lineOut>>

VerifierIdle ==
    /\ inv = NoInvoice /\ items = <<>> /\ verifs = <<>> /\ det = NoDetermination
    /\ pc = "idle" /\ idx = 0 /\ results = <<>> /\ call = NoCall
    /\ lineIn = [item |-> NoLine.item, hasKb |-> FALSE, resp |-> FailResp]
    /\ lineOut = NoLine

\* line items an OCR answer can hold: quantity, unit_price, line_total, ...
ItemSixty == JItem(TRUE, JNum(1, 0), JNum(6000, 2), JNum(6000, 2), JAbsent, JAbsent,
                   JAbsent, "taxable")
ItemForty == JItem(TRUE, JNum(1, 0), JNum(4000, 2), JNum(4000, 2), JAbsent, JAbsent,
                   JAbsent, "Exempt")
ItemNoTotal == JItem(TRUE, JNum(2, 0), JNum(3000, 2), JAbsent, JAbsent, JAbsent,
                     JAbsent, "taxable")
ItemDiscounted == JItem(TRUE, JNum(2, 0), JNum(3000, 2), JNum(4000, 2), JAbsent,
                        JAbsent, JAbsent, " taxable ")
ItemRounded == JItem(TRUE, JNum(2, 0), JNum(3000, 2), JNum(5999, 2), JAbsent, JAbsent,
                     JAbsent, "EXEMPT ")
ItemKnownDiscount == JItem(TRUE, JNum(2, 0), JNum(3000, 2), JNum(4000, 2),
                           JNum(1000, 2), JAbsent, JAbsent, "taxable")
ItemNegative == JItem(TRUE, JNum(-1, 0), JNum(500, 2), JNum(-500, 2), JAbsent,
                      JNum(-100, 2), JNum(15, 1), "VAT")
ItemLarge == JItem(TRUE, JAbsent, JNum(60000, 2), JNum(60000, 2), JAbsent,
                   JNum(4800, 2), JNum(8, 2), "Taxable")
ItemTaxed == JItem(TRUE, JNum(1, 0), JNum(10000, 2), JNum(10000, 2), JAbsent,
                   JNum(800, 2), JNum(8, 2), "Taxable")
ItemNotDict == JItem(FALSE, JAbsent, JAbsent, JAbsent, JAbsent, JAbsent, JAbsent, "")

ParseItems ==
    {ItemSixty, ItemForty, ItemNoTotal, ItemDiscounted, ItemRounded, ItemKnownDiscount,
     ItemNegative, ItemLarge, ItemNotDict}

\* the state_code texts of an OCR answer
StateTexts ==
    {<<>>, <<"c">>, <<"c", "a">>, <<" ", "t", "x">>, <<"c", "a", "l">>, <<"x", "x">>}

\* an OCR answer: no JSON, JSON that is no object, or an object with these keys
Doc(kind, total, tax, disc, state, isList, elems) ==
    [kind |-> kind, total_amount |-> total, total_tax_amount |-> tax,
     invoice_discount_amount |-> disc, state_code |-> state,
     line_items |-> [isList |-> isList, elems |-> elems]]

ParseDocs ==
    {Doc(k, JAbsent, JAbsent, JAbsent, JAbsent, FALSE, <<>>) : k \in {"notjson", "notobject"}}
    \cup {Doc("object", t, JAbsent, d, st, l, es) :
            t \in {JAbsent, JNum(9000, 2), JNum(10000, 2), JNum(-500, 2),
                   JStr(<<"$", "1", "5">>)},
            d \in {JAbsent, JNum(1000, 2)},
            st \in {JAbsent} \cup {JStr(x) : x \in StateTexts},
            l \in {TRUE},
            es \in SeqsUpTo(ParseItems, MaxItems)}
    \cup {Doc("object", JNum(9000, 2), JAbsent, JAbsent, JStr(<<"c", "a">>), FALSE, <<>>)}

InitParse ==
    /\ parseIn \in [done : {TRUE}, fn : {"validate_and_extract"}, doc : ParseDocs]
    /\ parseOut = NoParse /\ upload = NoUpload
    /\ VerifierIdle

\* InvoiceDataParser(json_string).parse(), then validate_and_extract()
ApplyValidateAndExtract ==
    /\ ~parseOut.done /\ parseIn.fn = "validate_and_extract"
    /\ parseOut' = [done |-> TRUE] @@ ValidateAndExtract(parseIn.doc)
    /\ UNCHANGED <<verifierVars, parseIn, upload>>

NextParse == ApplyValidateAndExtract

SpecParse == InitParse /\ [][NextParse]_vars

\* ------------------------------------------------------------------ create_invoice_from_ocr

\* how often create_invoice_from_ocr is run on one invoice
MaxRuns == 2

\* the usage the OCR call reports with its text
OcrUsage == [totalCost |-> 7]

\* InvoiceLineItem.objects.create for one parsed line item
StoredLineItem(v) ==
    [quantity |-> v.quantity, unit_price |-> v.unit_price, line_total |-> v.line_total,
     discount_amount |-> v.discount_amount, tax_amount |-> v.tax_amount,
     tax_rate |-> QuantizeRate(v.tax_rate), tax_status |-> v.tax_status,
     kb_total_cost |-> 0]

\* mutant: the line items of the run before are kept
StoredLineItems_KeepsOld(old, data) ==
    old \o [i \in 1..Len(data.line_items) |-> StoredLineItem(data.line_items[i])]

\* the line items after the existing ones are deleted and the parsed ones created
StoredLineItems(old, data) ==
    [i \in 1..Len(data.line_items) |-> StoredLineItem(data.line_items[i])]

\* the invoice after its fields are set, the usage saved and the cost recalculated
StoredInvoice(data, its) ==
    RecalculateTotalLlmCost(
        [state_code |-> IF data.state_code = "" THEN "XX" ELSE data.state_code,
         total_amount |-> data.total_amount,
         total_tax_amount |-> data.total_tax_amount,
         invoice_discount_amount |-> data.invoice_discount_amount,
         ocr_total_cost |-> OcrUsage.totalCost,
         total_llm_cost |-> 0],
        its)

\* the invoice upload_invoice creates before the OCR call
NewInvoice ==
    [state_code |-> "XX", total_amount |-> 0, total_tax_amount |-> 0,
     invoice_discount_amount |-> 0, ocr_total_cost |-> 0, total_llm_cost |-> 0]

\* a line item left on the invoice by an earlier OCR run
OldLineItem ==
    [quantity |-> 1, unit_price |-> 2500, line_total |-> 2500, discount_amount |-> 0,
     tax_amount |-> 0, tax_rate |-> 0, tax_status |-> "unknown", kb_total_cost |-> 0]

\* the OCR answers: a state with a knowledge base comes with at most one line item
OcrDocs ==
    {Doc("notjson", JAbsent, JAbsent, JAbsent, JAbsent, FALSE, <<>>)}
    \cup {Doc("object", t, JAbsent, JAbsent, JStr(<<"c", "a">>), TRUE, es) :
            t \in {JNum(10000, 2), JNum(-500, 2)}, es \in {<<>>, <<ItemTaxed>>}}
    \cup {Doc("object", t, JAbsent, JAbsent, st, TRUE, es) :
            t \in {JNum(10000, 2), JNum(-500, 2)},
            st \in {JAbsent, JStr(<<"c">>), JStr(<<" ", "t", "x">>)},
            es \in {<<>>, <<ItemSixty, ItemForty>>, <<ItemNegative, ItemNotDict>>}}

\* the OCR call fails, or returns a text: of exactly two characters (no JSON
\* object with a key is that short) or longer
OcrResults ==
    {[ocr |-> "failed", chars |-> "more",
      doc |-> Doc("notjson", JAbsent, JAbsent, JAbsent, JAbsent, FALSE, <<>>)],
     [ocr |-> "text", chars |-> "two",
      doc |-> Doc("notjson", JAbsent, JAbsent, JAbsent, JAbsent, FALSE, <<>>)]}
    \cup {[ocr |-> "text", chars |-> "more", doc |-> d] : d \in OcrDocs}

NoSnapshot == [inv |-> NewInvoice, items |-> <<>>]

InitOcr ==
    /\ inv = NewInvoice
    /\ items \in {<<>>, <<OldLineItem>>}
    /\ verifs = [i \in 1..Len(items) |-> NoVerification]
    /\ det = NoDetermination
    /\ pc = "idle" /\ idx = 0 /\ results = <<>> /\ call = NoCall
    /\ lineIn = [item |-> NoLine.item, hasKb |-> FALSE, resp |-> FailResp]
    /\ lineOut = NoLine
    /\ parseIn = NoParse /\ parseOut = NoParse
    /\ \E r \in OcrResults :
          upload = [phase |-> "ready", status |-> "processing", ocr |-> r.ocr,
                    chars |-> r.chars, doc |-> r.doc, runs |-> 0, raised |-> FALSE,
                    before |-> NoSnapshot]

\* create_invoice_from_ocr(ocr_json, invoice=invoice, ocr_usage_info=usage) up to
\* the automatic verification, which VerifyItem and FinishVerify carry out; an
\* exception of the verification is caught
CreateInvoiceFromOcr ==
    /\ pc = "idle" /\ upload.phase = "ready" /\ upload.ocr = "text"
    /\ upload.runs < MaxRuns
    /\ \E parsed \in {ValidateAndExtract(upload.doc)} :
       \E its \in {StoredLineItems(items, parsed.data)} :
       \E invoice \in {StoredInvoice(parsed.data, its)} :
       \E snapshot \in {IF upload.runs = 1 THEN [inv |-> inv, items |-> items]
                        ELSE upload.before} :
          LET verify == ~NoValidStateCode(invoice) /\ its # <<>>
          IN  IF parsed.raised
              THEN /\ upload' = [upload EXCEPT !.runs = @ + 1, !.raised = TRUE,
                                               !.before = snapshot]
                   /\ UNCHANGED <<inv, items, verifs, pc, idx, results, call>>
              ELSE /\ inv' = invoice
                   /\ items' = its
                   /\ verifs' = [i \in 1..Len(its) |-> NoVerification]
                   /\ upload' = [upload EXCEPT !.runs = @ + 1, !.status = "completed",
                                               !.before = snapshot]
                   /\ pc' = IF verify THEN "loop" ELSE "idle"
                   /\ idx' = IF verify THEN 1 ELSE 0
                   /\ results' = <<>>
                   /\ call' = [outcome |-> IF verify THEN "running" ELSE "skipped",
                               kbQueried |-> FALSE, calc |-> ""]
    /\ UNCHANGED <<det, lineIn, lineOut, parseIn, parseOut>>

\* mutant: a failed OCR call leaves the invoice as it was created
UploadInvoice_LeavesProcessing ==
    /\ pc = "idle" /\ upload.phase = "ready" /\ upload.runs = 0
    /\ upload' = [upload EXCEPT !.phase = "uploaded",
                                !.status = IF upload.ocr = "failed" THEN @ ELSE "error"]
    /\ UNCHANGED <<verifierVars, parseIn, parseOut>>

\* upload_invoice: process_pdf returns one string, which the view unpacks into
\* ocr_result and ocr_usage_info; only a string of two characters unpacks, and
\* its first character is then parsed as the OCR answer
UploadInvoice ==
    /\ pc = "idle" /\ upload.phase = "ready" /\ upload.runs = 0
    /\ \E ocr_result \in {Doc("notjson", JAbsent, JAbsent, JAbsent, JAbsent, FALSE, <<>>)} :
       \E parsed \in {ValidateAndExtract(ocr_result)} :
          LET unpacks == upload.chars = "two"
              failed == upload.ocr = "failed" \/ ~unpacks \/ parsed.raised
          IN  upload' = [upload EXCEPT !.phase = "uploaded",
                                       !.status = IF failed THEN "error"
                                                  ELSE "completed"]
    /\ UNCHANGED <<verifierVars, parseIn, parseOut>>

NextOcr == CreateInvoiceFromOcr \/ UploadInvoice \/ VerifyItem \/ FinishVerify

SpecOcr == InitOcr /\ [][NextOcr]_vars

\* ------------------------------------------------------------------ the invoice-level discount

\* line items of 0.60, 0.40, 0.95 and 0.05: taxable ones at 8% and at no rate,
\* an exempt one, one of unknown status, an exempt one that was charged 8%
DiscItems ==
    {LineItem(8000, "taxable", 60, 0, 0), LineItem(8000, "taxable", 40, 0, 0),
     LineItem(0, "taxable", 60, 0, 0), LineItem(8000, "taxable", 5, 0, 0),
     LineItem(0, "exempt", 40, 0, 0), LineItem(0, "unknown", 40, 0, 0),
     LineItem(8000, "exempt", 95, 0, 0)}

\* invoices of 1.00 and of 0.90, without a discount and with one of 0.10
DiscInvoices ==
    {[state_code |-> "CA", total_amount |-> ta, total_tax_amount |-> 0,
      invoice_discount_amount |-> d, ocr_total_cost |-> 7, total_llm_cost |-> 7] :
        ta \in {100, 90}, d \in {0, 10}}

\* the knowledge base gives 8%, or 0 on an exemption
DiscAnswers ==
    {Resp("json", TRUE, TRUE, "num", 8000, "num", 95, TRUE, PlainText),
     Resp("json", TRUE, TRUE, "num", 0, "num", 95, TRUE, ExemptText)}

\* the loop of verify_invoice_taxes has ended on an invoice that may carry a discount
InitDisc ==
    /\ inv \in DiscInvoices
    /\ \E its \in SeqsUpTo(DiscItems, MaxItems) :
       \E answers \in [1..Len(its) -> DiscAnswers] :
          LET res == [i \in 1..Len(its) |-> VerifyLineItemTax(its[i], TRUE, answers[i])]
          IN  /\ items = its
              /\ verifs = [i \in 1..Len(its) |-> StoredVerification(res[i], its[i])]
              /\ results = [i \in 1..Len(its) |-> ResultEntry(res[i], answers[i])]
              /\ idx = Len(its) + 1
              /\ call = [outcome |-> "running", kbQueried |-> its # <<>>, calc |-> ""]
    /\ det = NoDetermination
    /\ pc = "loop"
    /\ lineIn = [item |-> NoLine.item, hasKb |-> FALSE, resp |-> FailResp]
    /\ lineOut = NoLine
    /\ ParserIdle

NextDisc == FinishVerify

SpecDisc == InitDisc /\ [][NextDisc]_vars

\* ------------------------------------------------------------------ _build_tax_verification_prompt

\* the tax display context the prompt announces, "none" where it announces none
TaxDisplayMode(item, invoice) ==
    IF item.tax_amount = 0 /\ item.tax_rate > 0 /\ invoice.total_tax_amount > 0
    THEN "total"
    ELSE IF item.tax_amount > 0 THEN "per_line"
    ELSE IF item.tax_amount = 0 /\ item.tax_rate = 0 THEN "exempt"
    ELSE "none"

\* line items with and without a rate and a tax amount of their own
PromptItems ==
    {LineItem(r, st, lt, t, 0) :
        r \in {0, 7000, 8250}, st \in {"taxable", "exempt", "unknown"},
        lt \in {6000, 10000}, t \in {0, 500, 800}}

\* invoices with and without a total tax amount
PromptInvoices ==
    {[state_code |-> "CA", total_amount |-> 10000, total_tax_amount |-> tt,
      invoice_discount_amount |-> 0, ocr_total_cost |-> 7, total_llm_cost |-> 7] :
        tt \in {0, 800, 4125}}

\* no prompt has been built
NoPrompt == [done |-> FALSE]

InitPrompt ==
    /\ \E it \in PromptItems, invoice \in PromptInvoices :
          lineIn = [item |-> it, invoice |-> invoice]
    /\ lineOut = NoPrompt
    /\ inv = NoInvoice /\ items = <<>> /\ verifs = <<>> /\ det = NoDetermination
    /\ pc = "idle" /\ idx = 0 /\ results = <<>> /\ call = NoCall
    /\ ParserIdle

BuildTaxVerificationPrompt ==
    /\ ~lineOut.done
    /\ lineOut' = [done |-> TRUE, item |-> lineIn.item, invoice |-> lineIn.invoice,
                   mode |-> TaxDisplayMode(lineIn.item, lineIn.invoice)]
    /\ UNCHANGED <<lineIn, inv, items, verifs, det, pc, idx, results, call>>
    /\ UNCHANGED parserVars

NextPrompt == BuildTaxVerificationPrompt

SpecPrompt == InitPrompt /\ [][NextPrompt]_vars

\* ------------------------------------------------------------------ two callers of verify_invoice_taxes

\* Here verifs[i] is the list of the LineItemTaxVerification rows whose line_item
\* is item i (a ForeignKey: the table has no unique constraint on it), each row
\* kept as the caller that wrote it last; det is the one TaxDetermination row the
\* OneToOneField allows; pc, idx and call are kept per caller.

Callers == {"A", "B"}

\* the invoice whose verification is requested, with one or more line items
RaceItems == {LineItem(8000, "taxable", 10000, 0, 3)}

\* the row a caller writes
RowBy(c) == [by |-> c]

\* the determination row a caller writes
DeterminationBy(c, its) ==
    [present |-> TRUE, by |-> c, verification_count |-> Len(its)]

\* the invoice was never verified, or was verified once before
InitRace ==
    /\ inv \in {i \in Invoices : i.state_code = "CA" /\ i.total_tax_amount = 0}
    /\ items \in SeqsUpTo(RaceItems, MaxItems) \ {<<>>}
    /\ \E before \in BOOLEAN :
          /\ verifs = [i \in 1..Len(items) |->
                          IF before THEN <<RowBy("earlier")>> ELSE <<>>]
          /\ det = IF before THEN DeterminationBy("earlier", items)
                   ELSE NoDetermination
    /\ pc = [c \in Callers |-> "idle"]
    /\ idx = [c \in Callers |-> 0]
    /\ call = [c \in Callers |-> [runs |-> 0, outcome |-> "none"]]
    /\ results = <<>>
    /\ lineIn = [item |-> NoLine.item, hasKb |-> FALSE, resp |-> FailResp]
    /\ lineOut = NoLine
    /\ ParserIdle

\* a caller enters verify_invoice_taxes: the loop starts at the first line item
StartVerify(c) ==
    /\ pc[c] = "idle" /\ call[c].runs < MaxRuns
    /\ pc' = [pc EXCEPT ![c] = "get"]
    /\ idx' = [idx EXCEPT ![c] = 1]
    /\ call' = [call EXCEPT ![c] = [runs |-> @.runs + 1, outcome |-> "running"]]
    /\ UNCHANGED <<inv, items, verifs, det, results, lineIn, lineOut>>
    /\ UNCHANGED parserVars

\* the loop moves on from line item idx[c]
AfterItem(c) ==
    /\ pc' = [pc EXCEPT ![c] = IF idx[c] < Len(items) THEN "get" ELSE "detget"]
    /\ idx' = [idx EXCEPT ![c] = @ + 1]

\* update_or_create, the get under select_for_update: a single row is updated in
\* the same transaction, several rows raise MultipleObjectsReturned, no row
\* leaves the creation to come
GetVerification(c) ==
    /\ pc[c] = "get"
    /\ LET rows == verifs[idx[c]]
       IN  IF Len(rows) = 0
           THEN /\ pc' = [pc EXCEPT ![c] = "create"]
                /\ UNCHANGED <<verifs, idx, call>>
           ELSE IF Len(rows) = 1
           THEN /\ verifs' = [verifs EXCEPT ![idx[c]] = <<RowBy(c)>>]
                /\ AfterItem(c)
                /\ UNCHANGED call
           ELSE /\ pc' = [pc EXCEPT ![c] = "idle"]
                /\ idx' = [idx EXCEPT ![c] = 0]
                /\ call' = [call EXCEPT ![c].outcome = "raised"]
                /\ UNCHANGED verifs
    /\ UNCHANGED <<inv, items, det, results, lineIn, lineOut>>
    /\ UNCHANGED parserVars

\* update_or_create, the create after DoesNotExist: the row is inserted, whatever
\* rows another caller has inserted since
CreateVerification(c) ==
    /\ pc[c] = "create"
    /\ verifs' = [verifs EXCEPT ![idx[c]] = Append(@, RowBy(c))]
    /\ AfterItem(c)
    /\ UNCHANGED <<inv, items, det, call, results, lineIn, lineOut>>
    /\ UNCHANGED parserVars

\* the call ends: the line-item costs are summed into the invoice
EndVerify(c) ==
    /\ pc' = [pc EXCEPT ![c] = "idle"]
    /\ idx' = [idx EXCEPT ![c] = 0]
    /\ call' = [call EXCEPT ![c].outcome = "completed"]
    /\ inv' = RecalculateTotalLlmCost(inv, items)

\* TaxDetermination.objects.update_or_create, the get: an existing row is updated
GetDetermination(c) ==
    /\ pc[c] = "detget"
    /\ IF det.present
       THEN /\ det' = DeterminationBy(c, items)
            /\ EndVerify(c)
       ELSE /\ pc' = [pc EXCEPT ![c] = "detcreate"]
            /\ UNCHANGED <<inv, det, idx, call>>
    /\ UNCHANGED <<items, verifs, results, lineIn, lineOut>>
    /\ UNCHANGED parserVars

\* TaxDetermination.objects.update_or_create, the create after DoesNotExist: the
\* insert, or on the IntegrityError of the unique invoice the get and the update
CreateDetermination(c) ==
    /\ pc[c] = "detcreate"
    /\ det' = DeterminationBy(c, items)
    /\ EndVerify(c)
    /\ UNCHANGED <<items, verifs, results, lineIn, lineOut>>
    /\ UNCHANGED parserVars

NextRace ==
    \E c \in Callers :
        \/ StartVerify(c)
        \/ GetVerification(c)
        \/ CreateVerification(c)
        \/ GetDetermination(c)
        \/ CreateDetermination(c)

SpecRace == InitRace /\ [][NextRace]_vars

\* ------------------------------------------------------------------ claims on one line item

\* the KB answer of a finished verification, as the parser returned it
ParsedOf(l) == ParseVerificationResponse(l.resp)

\* C1 (as stated): every result of verify_line_item_tax has is_correct true
\* exactly when the expected and the applied rate differ by at most 0.0001.
C1_CorrectIffRatesMatch ==
    lineOut.done =>
        (lineOut.res.is_correct <=>
            Abs(lineOut.res.expected_tax_rate - lineOut.item.tax_rate) <= Tolerance)

\* C1 (amended): is_correct true implies that the rates differ by at most 0.0001;
\* and when the KB answered and the rates differ by at most 0.0001, is_correct is
\* true unless the reasoning mentions a rate that differs from the applied rate
\* by more than 0.0001 and is within 0.0001 of the expected rate.
C1_Amended ==
    lineOut.done =>
        LET a == lineOut.item.tax_rate
            e == lineOut.res.expected_tax_rate
            ms == lineOut.res.reasoning.mentions
        IN  /\ lineOut.res.is_correct => Abs(e - a) <= Tolerance
            /\ ( /\ lineOut.res.kb_ok
                 /\ Abs(e - a) <= Tolerance
                 /\ \A i \in 1..Len(ms) :
                       ~(Abs(ms[i] - a) > Tolerance /\ Abs(ms[i] - e) <= Tolerance) )
               => lineOut.res.is_correct

\* C1 witness: the KB said correct with an expected rate 0.05 against 0.07, and
\* the result is not correct
C1_Witness ==
    /\ lineOut.done
    /\ lineOut.res.kb_ok
    /\ lineOut.resp.kind = "json" /\ lineOut.resp.icFound /\ lineOut.resp.isCorrect
    /\ lineOut.item.tax_rate = 7000
    /\ lineOut.res.expected_tax_rate = 5000
    /\ ~lineOut.res.is_correct

\* C8 (as stated): an answer that is no JSON and in which the regex fallback finds
\* no field gives is_correct false, expected rate 0 and a reasoning that embeds
\* the preview of the response, for every line item.
C8_UnparseableIsDefaulted ==
    ( /\ lineOut.done
      /\ lineOut.hasKb
      /\ lineOut.resp.kind = "regex"
      /\ ~lineOut.resp.icFound /\ lineOut.resp.erKind = "missing"
      /\ lineOut.resp.csKind = "missing" /\ ~lineOut.resp.rsFound )
    => /\ ~lineOut.res.is_correct
       /\ lineOut.res.expected_tax_rate = 0
       /\ "Preview" \in lineOut.res.reasoning.notes

\* the first mention above the tolerance is within the tolerance of the rate
FirstMentionMatches(ms, rate) ==
    /\ FirstNonZeroMention(ms) > 0
    /\ Abs(ms[FirstNonZeroMention(ms)] - rate) <= Tolerance

\* the case of C9: a taxable item with an applied rate, a KB answer with expected
\* rate 0 and no exemption keyword in its reasoning
C9_Case(l) ==
    /\ l.done
    /\ l.res.kb_ok
    /\ l.item.tax_status = "taxable"
    /\ l.item.tax_rate > 0
    /\ ParsedOf(l).expected_tax_rate = 0
    /\ ~ParsedOf(l).reasoning.exempt

\* C9 (as stated): in that case, if some mention is within 0.0001 of the applied
\* rate, the expected rate is the applied rate and is_correct is true, whatever
\* else the reasoning mentions and in whatever order.
C9_AnyMentionAdoptsApplied ==
    ( /\ C9_Case(lineOut)
      /\ \E i \in 1..Len(ParsedOf(lineOut).reasoning.mentions) :
            /\ ParsedOf(lineOut).reasoning.mentions[i] > Tolerance
            /\ Abs(ParsedOf(lineOut).reasoning.mentions[i] - lineOut.item.tax_rate)
                  <= Tolerance )
    => /\ lineOut.res.expected_tax_rate = lineOut.item.tax_rate
       /\ lineOut.res.is_correct

\* C9 (amended): in that case, if the first percentage above 0.0001 that the
\* reasoning mentions is within 0.0001 of the applied rate, the expected rate is
\* the applied rate and is_correct is true.
C9_Amended ==
    ( /\ C9_Case(lineOut)
      /\ FirstMentionMatches(ParsedOf(lineOut).reasoning.mentions, lineOut.item.tax_rate) )
    => /\ lineOut.res.expected_tax_rate = lineOut.item.tax_rate
       /\ lineOut.res.is_correct

\* C9 witness: the reasoning mentions 0% and then 7.005% against an applied 7%
C9_Witness ==
    /\ C9_Case(lineOut)
    /\ ParsedOf(lineOut).reasoning.mentions = <<0, 7005>>
    /\ lineOut.res.expected_tax_rate = 7000
    /\ lineOut.res.is_correct

\* ------------------------------------------------------------------ claims on one invoice

Completed == pc = "idle" /\ call.outcome = "completed"

\* the invoice has a state code other than the sentinel
HasStateCode == inv.state_code # "" /\ inv.state_code # "XX"

\* the KB answered is_correct = true with expected rate 5% for an item at 8%
ScenarioC(i) ==
    /\ items[i].tax_rate = 8000
    /\ results[i].resp.kind = "json" /\ results[i].resp.isCorrect
    /\ results[i].resp.expected = 5000

\* C2: after verify_invoice_taxes completes, every stored verification whose
\* expected and applied rate differ by more than 0.0001 has is_correct = false,
\* and the KB's "correct at 5%" for an item at 8% is stored as incorrect with the
\* auto-correction note
C2_MismatchStoredIncorrect ==
    Completed =>
        \A i \in 1..Len(verifs) :
            /\ (verifs[i].present
                /\ Abs(verifs[i].expected_tax_rate - verifs[i].applied_tax_rate) > Tolerance)
               => ~verifs[i].is_correct
            /\ ScenarioC(i)
               => (/\ verifs[i].present /\ ~verifs[i].is_correct
                   /\ verifs[i].expected_tax_rate = 5000
                   /\ "AutoCorrected" \in verifs[i].notes)

C2_Witness ==
    /\ Completed
    /\ \E i \in 1..Len(verifs) :
          /\ ScenarioC(i) /\ ~verifs[i].is_correct
          /\ "AutoCorrected" \in verifs[i].notes

C4_DeterminationExists ==
    (pc = "idle" /\ call.outcome \in {"completed", "raised"}
     /\ HasStateCode /\ items # <<>>) =>
        /\ det.present
        /\ call.calc \in {"items", "actual"}
           => (det.expected_tax = 0 /\ det.actual_tax = FallbackActualTax(inv))

\* C5: a step taken on an invoice whose state code is 'XX' or empty ends in the
\* not-applicable result (the error response of the endpoint), has not queried the
\* knowledge base and leaves verifications, determination, invoice and line items
\* (their cost fields included) as they were
C5_InvalidStateNoEffect ==
    [][~HasStateCode =>
          /\ call'.outcome \in {"not_applicable", "error_no_state_code"}
          /\ ~call'.kbQueried
          /\ pc' = "idle"
          /\ UNCHANGED <<verifs, det, inv, items>>]_vars

C5_Witness ==
    /\ ~HasStateCode /\ items # <<>>
    /\ call.outcome = "not_applicable"

\* C6: verify_invoice_taxes on an invoice with a valid state code and no line
\* items ends in the not-applicable result and leaves the invoice without a
\* determination
C6_NoItemsNoDetermination ==
    (pc = "idle" /\ call.outcome # "none" /\ HasStateCode /\ items = <<>>) =>
        /\ call.outcome \in {"not_applicable", "error_no_line_items"}
        /\ ~det.present

LineTaxSum ==
    SumOver([i \in 1..Len(items) |-> items[i].tax_amount], Len(items), 1..Len(items))

\* the sum of the line items' tax_amount, a negative one counted as 0
LineTaxSumNonNegative ==
    SumOver([i \in 1..Len(items) |-> IF items[i].tax_amount < 0 THEN 0
                                     ELSE items[i].tax_amount],
            Len(items), 1..Len(items))

SameNumber(a, b) ==
    a.kind = "fin" /\ b.kind = "fin" /\ a.m * 10^(b.e) = b.m * 10^(a.e)

\* a currency string: spaces, an optional sign, an optional "$", then digits with
\* commas between digits before the point, and at most one point
IsCurrencyString(str) ==
    LET t == Strip(str)
        u == IF t # <<>> /\ t[1] = "-" THEN Tail(t) ELSE t
        b == IF u # <<>> /\ u[1] = "$" THEN Tail(u) ELSE u
        points == {i \in 1..Len(b) : b[i] = "."}
    IN  /\ b # <<>> /\ b[1] \in Digits
        /\ \A i \in 1..Len(b) : b[i] \in Digits \cup {",", "."}
        /\ Cardinality(points) <= 1
        /\ \A i \in 1..Len(b) :
              b[i] = "," => /\ i < Len(b) /\ b[i - 1] \in Digits /\ b[i + 1] \in Digits
                            /\ \A j \in points : i < j

\* the number a currency string writes
CurrencyValue(str) ==
    LET ds == SelectSeq(str, LAMBDA c : c \in Digits)
        t == StripRight(str)
        after == IF \E i \in 1..Len(t) : t[i] = "."
                 THEN Len(t) - (CHOOSE i \in 1..Len(t) : t[i] = ".") ELSE 0
    IN  Dec((IF \E i \in 1..Len(str) : str[i] = "-" THEN -1 ELSE 1) * DigitsValue(ds),
            after)

\* C19: the coercion returns the number for a number and for a currency string
\* with "$" or thousands commas, and returns the default, without raising, for
\* null and for every value that is not numeric (here: that holds no digit)
C19_CoercionValueOrDefault ==
    parseOut.done =>
        LET v == parseIn.value
            out == parseOut.dec
        IN  /\ out.kind # "bad"
            /\ v.kind = "num" => SameNumber(out, Dec(v.m, v.e))
            /\ (v.kind = "str" /\ IsCurrencyString(v.str))
               => SameNumber(out, CurrencyValue(v.str))
            /\ (\/ v.kind \in {"null", "bool"}
                \/ v.kind = "str" /\ \A i \in 1..Len(v.str) : v.str[i] \notin Digits)
               => out = parseIn.default

\* validate_and_extract has returned the extracted data
Extracted ==
    parseIn.done /\ parseIn.fn = "validate_and_extract" /\ parseOut.done
    /\ ~parseOut.raised

\* the dictionaries among the line items of the OCR answer, in order
DictItems == SelectSeq(parseIn.doc.line_items.elems, LAMBDA j : j.isDict)

\* the invoice discount the OCR answer states, in cents
ExtractedDiscount == Units(ToDecimal(parseIn.doc.invoice_discount_amount, Dec(0, 2)), 2)

\* the sum of the parsed line totals
LineTotalSum ==
    LET its == parseOut.data.line_items
    IN  SumOver([i \in 1..Len(its) |-> its[i].line_total], Len(its), 1..Len(its))

\* the five conditions of the invoice-level discount inference
InferenceConditions ==
    LET its == parseOut.data.line_items
        total == parseOut.data.total_amount
        zeros == Cardinality({i \in 1..Len(its) : its[i].line_total = 0})
    IN  /\ Abs(LineTotalSum - ExtractedDiscount - total) > 1
        /\ ExtractedDiscount = 0
        /\ LineTotalSum > total
        /\ 2 * zeros < Len(its)
        /\ 2 * (LineTotalSum - total) < total

\* C11: validate_and_extract replaces the invoice discount by (sum of line totals
\* - total_amount) exactly when the five conditions hold (mismatch above 0.01, no
\* extracted discount, sum above total, fewer than half the line totals zero,
\* mismatch under half of total_amount), and returns the extracted discount
\* unchanged in every other case
C11_InferredIffConditions ==
    Extracted =>
        parseOut.data.invoice_discount_amount =
            IF InferenceConditions THEN LineTotalSum - parseOut.data.total_amount
            ELSE ExtractedDiscount

\* C12: every parsed line item whose extracted discount is 0 and whose line total
\* is below quantity * unit_price gets discount_amount = quantity * unit_price -
\* line_total
C12_DiscountInferredWhenBelowProduct ==
    Extracted =>
        \A i \in 1..Len(DictItems) :
            LET raw == CoerceItem(DictItems[i])
                out == parseOut.data.line_items[i]
            IN  (raw.discount_amount = 0 /\ raw.line_total < raw.quantity * raw.unit_price)
                => out.discount_amount = raw.quantity * raw.unit_price - raw.line_total

\* the line item is one the line-level inference applies to: its line total is not
\* a zero next to a positive quantity and unit price, and it is more than a cent
\* below quantity * unit_price
C12_Case(raw) ==
    /\ raw.discount_amount = 0
    /\ ~(raw.line_total = 0 /\ raw.quantity > 0 /\ raw.unit_price > 0)
    /\ raw.quantity * raw.unit_price - raw.line_total > 1

\* C12 (amended): a parsed line item gets discount_amount = quantity * unit_price
\* - line_total when its extracted discount is 0, its line_total is more than
\* 0.01 below quantity * unit_price, and its line_total is not a zero next to a
\* positive quantity and unit price; every other line item keeps the discount the
\* OCR answer states
C12_Amended ==
    Extracted =>
        \A i \in 1..Len(DictItems) :
            LET raw == CoerceItem(DictItems[i])
                out == parseOut.data.line_items[i]
            IN  out.discount_amount =
                    IF C12_Case(raw) THEN raw.quantity * raw.unit_price - raw.line_total
                    ELSE raw.discount_amount

C12_Witness ==
    /\ Extracted
    /\ \E i \in 1..Len(DictItems) :
          /\ C12_Case(CoerceItem(DictItems[i]))
          /\ parseOut.data.line_items[i].discount_amount = 2000
    /\ \E i \in 1..Len(DictItems) :
          /\ CoerceItem(DictItems[i]).line_total = 5999
          /\ parseOut.data.line_items[i].discount_amount = 0

\* C17: every line item the parser produces has quantity, unit_price, line_total,
\* discount_amount and tax_amount >= 0, tax_rate within [0, 1] and a tax_status
\* among taxable, exempt and unknown
C17_LineItemFieldsInRange ==
    Extracted =>
        \A i \in 1..Len(parseOut.data.line_items) :
            LET it == parseOut.data.line_items[i]
            IN  /\ it.quantity >= 0 /\ it.unit_price >= 0 /\ it.line_total >= 0
                /\ it.discount_amount >= 0 /\ it.tax_amount >= 0
                /\ it.tax_rate >= 0 /\ it.tax_rate <= RateOne
                /\ it.tax_status \in {"taxable", "exempt", "unknown"}

\* C20: a parsed line item with no line_total in the OCR answer gets line_total =
\* quantity * unit_price whenever that product is nonzero
C20_MissingTotalIsProduct ==
    Extracted =>
        \A i \in 1..Len(DictItems) :
            LET raw == CoerceItem(DictItems[i])
                out == parseOut.data.line_items[i]
            IN  (DictItems[i].line_total.kind = "absent"
                 /\ raw.quantity * raw.unit_price # 0)
                => out.line_total = raw.quantity * raw.unit_price

\* ------------------------------------------------------------------ claims on stored numbers

\* C15: whenever verify_invoice_taxes has finished, normally or by a failure its
\* caller catches, total_llm_cost = ocr_total_cost + the sum of kb_total_cost over
\* the line items
C15_TotalCostIsSum ==
    (pc = "idle" /\ call.outcome \in {"completed", "raised"}) =>
        inv.total_llm_cost =
            inv.ocr_total_cost
            + SumOver([i \in 1..Len(items) |-> items[i].kb_total_cost], Len(items),
                      1..Len(items))

\* C18: every stored verification has confidence_score and expected_tax_rate
\* within [0, 1]
C18_StoredNumbersInRange ==
    \A i \in 1..Len(verifs) :
        verifs[i].present =>
            /\ verifs[i].confidence_score >= 0
            /\ verifs[i].confidence_score <= ConfidenceOne
            /\ verifs[i].expected_tax_rate >= 0
            /\ verifs[i].expected_tax_rate <= RateOne

\* ------------------------------------------------------------------ claims on create_invoice_from_ocr

\* create_invoice_from_ocr has run at least n times on the invoice and the last
\* run, its verification included, has finished
RunsFinished(n) == upload.phase = "ready" /\ upload.runs >= n /\ pc = "idle"

JsonFields(invoice) ==
    [state_code |-> invoice.state_code, total_amount |-> invoice.total_amount,
     total_tax_amount |-> invoice.total_tax_amount,
     invoice_discount_amount |-> invoice.invoice_discount_amount]

JsonItemFields(it) ==
    [quantity |-> it.quantity, unit_price |-> it.unit_price,
     line_total |-> it.line_total, discount_amount |-> it.discount_amount,
     tax_amount |-> it.tax_amount, tax_rate |-> it.tax_rate,
     tax_status |-> it.tax_status]

C14_ErrorOnlyForOcrFailure ==
    /\ upload.phase = "uploaded" =>
          LET ocrFailed == upload.ocr = "failed" \/ upload.doc.kind # "object"
          IN  /\ upload.status = "error" => ocrFailed
              /\ ~ocrFailed => upload.status = "completed"
    /\ (RunsFinished(1) /\ call.outcome = "raised") => upload.status = "completed"

\* C16: after create_invoice_from_ocr the stored state_code has exactly two
\* characters (the sentinel 'XX' included) and total_amount is not negative
C16_StateCodeTwoCharsTotalNonNegative ==
    (RunsFinished(1) /\ ~upload.raised) =>
        Len(inv.state_code) = 2 /\ inv.total_amount >= 0

\* ------------------------------------------------------------------ further claims on one line item

\* C21: a KB expected rate of 0 is replaced only if the item is taxable and the
\* reasoning has no exemption keyword; otherwise the expected rate stays 0
C21_OverrideOnlyTaxableNoKeyword ==
    ( /\ lineOut.done
      /\ lineOut.res.kb_ok
      /\ ParsedOf(lineOut).expected_tax_rate = 0
      /\ \/ lineOut.item.tax_status # "taxable"
         \/ ParsedOf(lineOut).reasoning.exempt )
    => lineOut.res.expected_tax_rate = 0

\* the KB's reasoning mentions a rate that differs from the applied rate by more
\* than 0.0001 and is within 0.0001 of the expected rate
MentionsDisputingRate(l) ==
    \E i \in 1..Len(ParsedOf(l).reasoning.mentions) :
        /\ Abs(ParsedOf(l).reasoning.mentions[i] - l.item.tax_rate) > Tolerance
        /\ Abs(ParsedOf(l).reasoning.mentions[i] - l.res.expected_tax_rate) <= Tolerance

\* C22: when the reasoning mentions such a rate the result has is_correct false,
\* even if the rates are within 0.0001; when it mentions none, is_correct is what
\* the rate comparison gave, also where the reasoning was annotated as clarified
C22_ContradictionForcesFalse ==
    (lineOut.done /\ lineOut.res.kb_ok) =>
        /\ MentionsDisputingRate(lineOut) => ~lineOut.res.is_correct
        /\ ~MentionsDisputingRate(lineOut) =>
              (lineOut.res.is_correct <=>
                  Abs(lineOut.item.tax_rate - lineOut.res.expected_tax_rate) <= Tolerance)

\* C22 witness: applied 7%, expected 7.01%, the reasoning mentions 7.015%: the
\* rates are within the tolerance, the KB said correct, the result is not correct
C22_Witness ==
    /\ lineOut.done /\ lineOut.res.kb_ok
    /\ lineOut.item.tax_rate = 7000 /\ lineOut.res.expected_tax_rate = 7010
    /\ ParsedOf(lineOut).is_correct
    /\ MentionsDisputingRate(lineOut)
    /\ ~lineOut.res.is_correct
    /\ "Contradiction" \in lineOut.res.reasoning.notes

\* ------------------------------------------------------------------ claims on the tax calculation

\* the expected rate of line item i, clamped into [0, 1]
ExpectedRateOf(i) == ValidateTaxRate(results[i].expected_tax_rate)

\* line item i is not 'taxable' and its expected rate is zero
LeftOut(i) == items[i].tax_status # "taxable" /\ ExpectedRateOf(i) = 0

\* the rate multiplied for line item i: the applied rate where the expected rate
\* is zero against a nonzero applied rate
RateFor(i) ==
    IF ExpectedRateOf(i) = 0 /\ items[i].tax_rate > 0
    THEN ValidateTaxRate(items[i].tax_rate) ELSE ExpectedRateOf(i)

\* the sum of the line totals over the items in S
LineTotalOver(S) ==
    SumOver([i \in 1..Len(items) |-> items[i].line_total], Len(items), S)

\* the expected tax, in cents, when S are the items summed and the base of the
\* proportional allocation: the discount is subtracted unless there is none or
\* the line totals add up to total_amount
ExpectedTaxOver(S) ==
    LET n == Len(items)
        ts == LineTotalOver(S)
        d == inv.invoice_discount_amount
        allocate == /\ d > 0 /\ ts > 0
                    /\ Abs(LineTotalOver(1..n) - inv.total_amount) > 1
        part == [i \in 1..n |->
                   RateFor(i) * (IF allocate
                                 THEN Max(0, Max(0, items[i].line_total) * (ts - d))
                                 ELSE Max(0, items[i].line_total))]
    IN  RoundHalfEven(SumOver(part, n, S), RateOne * (IF allocate THEN ts ELSE 1))

Kept == {i \in 1..Len(items) : ~LeftOut(i)}

\* the sum of all line totals is within 0.01 of total_amount
Absorbed == Abs(LineTotalOver(1..Len(items)) - inv.total_amount) <= 1

\* the sum of all line totals is within 0.01 of total_amount + invoice_discount_amount
PreDiscount ==
    /\ ~Absorbed
    /\ Abs(LineTotalOver(1..Len(items))
           - (inv.total_amount + inv.invoice_discount_amount)) <= 1

\* the expected tax on the full line totals of the items kept
FullTax ==
    RoundHalfEven(SumOver([i \in 1..Len(items) |-> RateFor(i) * items[i].line_total],
                          Len(items), Kept),
                  RateOne)

\* line_total - invoice_discount_amount * line_total / taxableSubtotal, never below
\* 0, of item i, times taxableSubtotal
AllocatedBase(i) ==
    Max(0, items[i].line_total * (LineTotalOver(Kept) - inv.invoice_discount_amount))

\* the expected tax on the allocated bases of the items kept
AllocatedTax ==
    RoundHalfEven(SumOver([i \in 1..Len(items) |-> RateFor(i) * AllocatedBase(i)],
                          Len(items), Kept),
                  RateOne * LineTotalOver(Kept))

\* the discounts allocated to the items kept, added up, times taxableSubtotal
AllocatedDiscount ==
    SumOver([i \in 1..Len(items) |->
                items[i].line_total * LineTotalOver(Kept) - AllocatedBase(i)],
            Len(items), Kept)

\* the tax calculation has completed on an invoice with a discount
DiscountCase == Completed /\ call.calc = "none" /\ inv.invoice_discount_amount > 0

FieldsKept(l) ==
    LET p == ParsedOf(l)
    IN  /\ p.is_correct = (l.resp.icFound /\ l.resp.isCorrect)
        /\ l.resp.erKind = "num" => p.expected_tax_rate = l.resp.expected
        /\ l.resp.erKind = "missing" => p.expected_tax_rate = 0
        /\ l.resp.csKind = "num" =>
              p.confidence_score = (IF l.resp.conf > ConfidenceOne THEN ConfidenceOne
                                    ELSE l.resp.conf)
        /\ l.resp.csKind = "missing" => p.confidence_score = ConfidenceDefault
        /\ l.resp.rsFound => p.reasoning = l.resp.text

\* C26: for a KB answer that json.loads rejects, is_correct, expected_tax_rate,
\* confidence_score and reasoning are each extracted or defaulted on their own: a
\* field that cannot be converted does not discard another field that was found.
C26_RegexFieldsIndependent ==
    (lineOut.done /\ lineOut.hasKb /\ lineOut.resp.kind = "regex") => FieldsKept(lineOut)

\* ------------------------------------------------------------------ claims on the prompt

\* C27: the prompt of every line item and invoice announces exactly one of the
\* three tax display modes: total mode when tax_amount = 0, tax_rate > 0 and
\* total_tax_amount > 0, per-line mode when tax_amount > 0, exempt-candidate mode
\* when tax_amount = 0 and tax_rate = 0.
C27_ExactlyOneDisplayMode ==
    lineOut.done =>
        /\ lineOut.mode \in {"total", "per_line", "exempt"}
        /\ lineOut.mode = "total" <=>
              /\ lineOut.item.tax_amount = 0 /\ lineOut.item.tax_rate > 0
              /\ lineOut.invoice.total_tax_amount > 0
        /\ lineOut.mode = "per_line" <=> lineOut.item.tax_amount > 0
        /\ lineOut.mode = "exempt" <=>
              lineOut.item.tax_amount = 0 /\ lineOut.item.tax_rate = 0

\* ------------------------------------------------------------------ claims on two callers

\* C28: in every reachable state each line item has at most one
\* LineItemTaxVerification row, whether verify_invoice_taxes is re-run or run by
\* two callers at once.
C28_AtMostOneVerificationPerItem ==
    \A i \in 1..Len(verifs) : Len(verifs[i]) <= 1

\* ------------------------------------------------------------------ claims on the upload

\* C29: when the request of upload_invoice has ended, the invoice it created in
\* status 'processing' has status 'completed' or 'error', whichever step failed.
C29_UploadNeverLeftProcessing ==
    upload.phase = "uploaded" => upload.status \in {"completed", "error"}

\* the OCR call failed and the request has ended with the invoice in 'error'
C29_Witness ==
    upload.phase = "uploaded" /\ upload.ocr = "failed" /\ upload.status = "error"

====
